---- MODULE Spec2Model ----
(***************************************************************************)
(* The search controller of the TV show search app (class                  *)
(* EnhancedTVShowApp).  The repository carries two builds of the class:    *)
(* src/app.js and src/app-optimized.js.  app-optimized.js redefines the    *)
(* constructor, the debounce, performSearch, addToSearchHistory,           *)
(* sanitizeInput, handleError and cleanup, and leaves "the rest of the     *)
(* methods" (app-optimized.js:800) to app.js.  The variable optimized      *)
(* says which build runs; it is chosen once, at construction.              *)
(*                                                                         *)
(* Strings are sequences of one-character strings, so that sanitizing,     *)
(* trimming and substring tests are computed and not assumed.              *)
(***************************************************************************)
EXTENDS Integers, Sequences, FiniteSets, TLC

(***************************************************************************)
(* Bounds of the model.                                                    *)
(***************************************************************************)
MaxFetches == 3        \* network requests issued in one run
MaxTail == 4           \* characters of a string after its long or empty prefix
MaxClock == 2          \* readings of the clock above its first
MaxPolls == 50         \* configuration checks counted (the count stays there)

(***************************************************************************)
(* Program constants.                                                      *)
(***************************************************************************)
DebounceDelay == 300   \* setTimeout(..., 300)
MaxTermLen == 100      \* .substring(0, 100)
MaxHistory == 10       \* .slice(0, 10)
MaxResults == 50       \* validShows.slice(0, 50)
MinTermLen == 2        \* searchTerm.length < 2
TickUnit == DebounceDelay \div 2   \* granularity of the clock
PollDelay == 100       \* setTimeout(checkConfig, 100)

Min(a, b) == IF a < b THEN a ELSE b
Max(a, b) == IF a > b THEN a ELSE b

(***************************************************************************)
(* Strings.                                                                *)
(***************************************************************************)
Dangerous == {"<", ">", "\"", "'", "&"}
Whitespace == {" ", "\t"}

Lower(c) ==
  CASE c = "H" -> "h" [] c = "B" -> "b" [] c = "O" -> "o" [] c = "N" -> "n"
    [] c = "C" -> "c" [] c = "S" -> "s" [] OTHER -> c

toLowerCase(s) == [i \in 1..Len(s) |-> Lower(s[i])]

\* String.prototype.includes: t occurs in s as a contiguous substring
includes(s, t) ==
  \E i \in 0..(Len(s) - Len(t)) : SubSeq(s, i + 1, i + Len(t)) = t

\* String.prototype.substring(0, n), Array.prototype.slice(0, n)
substring(s, n) == SubSeq(s, 1, Min(Len(s), n))
slice(s, n) == SubSeq(s, 1, Min(Len(s), n))

RECURSIVE trimStart(_)
trimStart(s) ==
  IF s # <<>> /\ Head(s) \in Whitespace THEN trimStart(Tail(s)) ELSE s

RECURSIVE trimEnd(_)
trimEnd(s) ==
  IF s # <<>> /\ s[Len(s)] \in Whitespace
  THEN trimEnd(SubSeq(s, 1, Len(s) - 1)) ELSE s

\* String.prototype.trim
trim(s) == trimEnd(trimStart(s))

\* .replace(/[<>\"'&]/g, "")
stripDangerous(s) == SelectSeq(s, LAMBDA c : c \notin Dangerous)

\* .replace(/\s+/g, " "): a run of whitespace becomes one blank, that is, a
\* whitespace character that follows another is dropped and the others
\* become blanks
collapseWhitespace(s) ==
  LET kept == SelectSeq([i \in 1..Len(s) |-> i], LAMBDA i :
                ~(s[i] \in Whitespace /\ i > 1 /\ s[Max(i - 1, 1)] \in Whitespace))
  IN [k \in 1..Len(kept) |->
        IF s[kept[k]] \in Whitespace THEN " " ELSE s[kept[k]]]

\* a sanitizeInput that trims before it cuts the string
sanitizeInputTrimFirst(opt, input) ==
  IF opt
  THEN substring(trim(collapseWhitespace(stripDangerous(input))), MaxTermLen)
  ELSE substring(trim(stripDangerous(input)), MaxTermLen)

sanitizeInput(opt, input) ==
  IF opt
  THEN trim(substring(collapseWhitespace(stripDangerous(input)), MaxTermLen))
  ELSE trim(substring(stripDangerous(input), MaxTermLen))

(***************************************************************************)
(* Shows.  A response item {show} is modelled by the show's id; ShowOf      *)
(* gives the fields the controller reads.  rating 0 stands for an absent    *)
(* rating, premiered <<>> for an absent premiere date (a date "YYYY-MM-DD" *)
(* is <<year, month, day>>), network <<>> for a show that has neither a    *)
(* network nor a web channel, name <<>> for a nameless show.               *)
(***************************************************************************)
HBO == <<"H", "B", "O">>
CBS == <<"C", "B", "S">>
Netflix == <<"N", "e", "t">>

ShowOf ==
  [id \in 1..4 |->
    CASE id = 1 -> [id |-> 1, name |-> <<"b">>, rating |-> 8,
                    premiered |-> <<2010, 6, 15>>,
                    status |-> "Running", genres |-> {"Drama"}, network |-> HBO]
      [] id = 2 -> [id |-> 2, name |-> <<"a">>, rating |-> 0,
                    premiered |-> <<2011, 1, 1>>,
                    status |-> "Ended", genres |-> {"Comedy"}, network |-> CBS]
      [] id = 3 -> [id |-> 3, name |-> <<"c">>, rating |-> 8, premiered |-> <<>>,
                    status |-> "Running", genres |-> {"Drama", "Comedy"},
                    network |-> <<>>]
      [] id = 4 -> [id |-> 4, name |-> <<>>, rating |-> 5,
                    premiered |-> <<2001, 3, 1>>,
                    status |-> "Ended", genres |-> {}, network |-> CBS]]

ShowIds == DOMAIN ShowOf

\* what the search endpoint may answer, and what the catalog endpoint may hold
TextResponses == {<<>>, <<1, 2>>, <<4, 3, 1>>}
Catalogs == {<<1, 2>>, <<2, 3, 1>>}

\* the labels of the category items, the search terms of the genre pills and
\* the (trimmed) values the user may type
Channels == {HBO, Netflix}
PillTerms == {<<"a", "b">>}
InputValues == {<<>>, <<"a">>, <<"a", "b">>, <<"<", ">">>}

Genres == {"", "Drama"}
Statuses == {"", "Running"}
SortKeys == {"relevance", "rating", "name", "year"}

(***************************************************************************)
(* Filter / sort derivation (applyFilters).                                *)
(***************************************************************************)
Range(s) == {s[i] : i \in 1..Len(s)}

CharRank(c) ==
  CASE c = "a" -> 1 [] c = "b" -> 2 [] c = "c" -> 3 [] c = "d" -> 4 [] OTHER -> 0

\* a.localeCompare(b) on the model's names: negative, zero or positive
RECURSIVE localeCompare(_, _)
localeCompare(a, b) ==
  IF a = <<>> /\ b = <<>> THEN 0
  ELSE IF a = <<>> THEN -1
  ELSE IF b = <<>> THEN 1
  ELSE IF CharRank(Head(a)) # CharRank(Head(b))
       THEN CharRank(Head(a)) - CharRank(Head(b))
       ELSE localeCompare(Tail(a), Tail(b))

\* new Date(premiered).getFullYear().  A date-only text is parsed as midnight
\* UTC of that day, and getFullYear gives the year of that instant in the
\* time zone of the browser: where local time is behind UTC the instant lies
\* in the evening before, which for the first of January is the year before.
getFullYear(date, behindUTC) ==
  IF behindUTC /\ date[2] = 1 /\ date[3] = 1 THEN date[1] - 1 ELSE date[1]

\* a.show.premiered ? new Date(a.show.premiered).getFullYear() : 0
yearOf(id, behindUTC) ==
  IF ShowOf[id].premiered = <<>> THEN 0
  ELSE getFullYear(ShowOf[id].premiered, behindUTC)

\* a comparator that puts the lower rating and the earlier year first
compareShowsAscending(behindUTC, sortBy, a, b) ==
  CASE sortBy = "rating" -> ShowOf[a].rating - ShowOf[b].rating
    [] sortBy = "name" -> localeCompare(ShowOf[a].name, ShowOf[b].name)
    [] sortBy = "year" -> yearOf(a, behindUTC) - yearOf(b, behindUTC)
    [] OTHER -> 0

\* the comparator handed to Array.prototype.sort
compareShows(behindUTC, sortBy, a, b) ==
  CASE sortBy = "rating" -> ShowOf[b].rating - ShowOf[a].rating
    [] sortBy = "name" -> localeCompare(ShowOf[a].name, ShowOf[b].name)
    [] sortBy = "year" -> yearOf(b, behindUTC) - yearOf(a, behindUTC)
    [] OTHER -> 0

\* Array.prototype.sort is stable: x goes before the first element that the
\* comparator puts strictly after it
RECURSIVE insertSorted(_, _, _, _)
insertSorted(behindUTC, sortBy, sorted, x) ==
  IF sorted = <<>> THEN <<x>>
  ELSE IF compareShows(behindUTC, sortBy, Head(sorted), x) > 0
       THEN <<x>> \o sorted
       ELSE <<Head(sorted)>> \o insertSorted(behindUTC, sortBy, Tail(sorted), x)

RECURSIVE sortShows(_, _, _)
sortShows(behindUTC, sortBy, items) ==
  IF items = <<>> THEN <<>>
  ELSE insertSorted(behindUTC, sortBy,
                    sortShows(behindUTC, sortBy, SubSeq(items, 1, Len(items) - 1)),
                    items[Len(items)])

\* the predicates of applyFilters, in the order the code applies them
passesFilters(id, genre, status, channel, favOnly, favs) ==
  /\ genre # "" => genre \in ShowOf[id].genres
  /\ status # "" => ShowOf[id].status = status
  /\ channel # <<>> =>
       includes(toLowerCase(ShowOf[id].network), toLowerCase(channel))
  /\ favOnly => id \in favs

\* the value applyFilters assigns to filteredResults
filterAndSort(raw, genre, status, channel, favOnly, favs, sortBy, behindUTC) ==
  sortShows(behindUTC, sortBy,
    SelectSeq(raw, LAMBDA id :
      passesFilters(id, genre, status, channel, favOnly, favs)))

\* the channel test of searchByChannel
matchesChannel(id, channel) ==
  LET network == toLowerCase(ShowOf[id].network)
      label == toLowerCase(channel)
  IN includes(network, label) \/ includes(label, network)

\* displayResults keeps the items that carry a show with a non-blank name
isValidShow(id) == trim(ShowOf[id].name) # <<>>

\* the networks populateChannelFilter offers in the channel select
channelsOf(results) ==
  {trim(ShowOf[results[i]].network) : i \in 1..Len(results)} \ {<<>>}

(***************************************************************************)
(* Errors.  handleError reads name, code, whether the message contains     *)
(* "timeout", the HTTP status of the response (0: no response) and whether *)
(* the error carries a request.                                            *)
(***************************************************************************)
MakeError(name, code, timeout, status, request) ==
  [name |-> name, code |-> code, timeout |-> timeout, status |-> status,
   request |-> request]

\* this.hideQuickSearch is not a function (app.js:563; no build defines it)
HideQuickSearchTypeError == MakeError("TypeError", "", FALSE, 0, FALSE)
\* throw new Error("Invalid search term") (app-optimized.js:479)
InvalidTermError == MakeError("Error", "", FALSE, 0, FALSE)
TimeoutError == MakeError("AxiosError", "ECONNABORTED", TRUE, 0, TRUE)
NetworkError == MakeError("AxiosError", "ERR_NETWORK", FALSE, 0, TRUE)
HttpError(status) == MakeError("AxiosError", "ERR_BAD_RESPONSE", FALSE, status, TRUE)

\* what a failed transport may reject with
TransportErrors == {TimeoutError, HttpError(503)}

\* What a request rejects with once its signal is aborted.  The source does
\* not fix the name: the HTTP client the page loads (axios) rejects with its
\* own CanceledError, a fetch-style client with an AbortError.
CancelErrors ==
  {MakeError("CanceledError", "ERR_CANCELED", FALSE, 0, TRUE),
   MakeError("AbortError", "", FALSE, 0, FALSE)}

MsgGeneric == "An unexpected error occurred. Please try again."
MsgTimeout == "Request timed out. Please check your connection and try again."
MsgNotFound == "TV show database not found. Please try again later."
MsgTooMany == "Too many requests. Please wait a moment and try again."
MsgServer == "Server error. Please try again later."
MsgStatus == "Server error (status). Please try again."
MsgNetwork == "Network error. Please check your internet connection."
MsgStorage == "Storage error. Some preferences may not be saved."

\* the message handleError selects for an error that is not an AbortError
errorMessageOf(error) ==
  IF error.code = "ECONNABORTED" \/ error.timeout THEN MsgTimeout
  ELSE IF error.status # 0
       THEN CASE error.status = 404 -> MsgNotFound
              [] error.status = 429 -> MsgTooMany
              [] error.status \in {500, 502, 503} -> MsgServer
              [] OTHER -> MsgStatus
       ELSE IF error.request THEN MsgNetwork ELSE MsgGeneric

(***************************************************************************)
(* State.                                                                  *)
(*   optimized : which build runs (FALSE: app.js, TRUE: app-optimized.js)  *)
(*   app       : the controller's fields, the state of the DOM elements it *)
(*               drives, the requests it has in flight, the toasts the     *)
(*               latest handler raised, what localStorage holds under the  *)
(*               controller's keys and the clock                           *)
(* and, to state the properties,                                           *)
(*   sinceKey  : time since the latest input event, capped at the debounce *)
(*               delay (-1: no input event yet)                            *)
(*   accepted  : the term and the raw result set of the latest search      *)
(*               whose response was applied                                *)
(*   event     : the event the latest step handled                         *)
(***************************************************************************)
VARIABLES optimized, app, sinceKey, accepted, event

vars == <<optimized, app, sinceKey, accepted, event>>

NoTimer == [active |-> FALSE, term |-> <<>>, remaining |-> 0]
Blank == [kind |-> "blank", ids |-> <<>>]
NoResultsView == [kind |-> "noResults", ids |-> <<>>]
Cards(ids) == [kind |-> "cards", ids |-> ids]

\* the timer of checkConfig, when none is scheduled
NoRetry == [active |-> FALSE, remaining |-> 0]

\* the favorites map: show id -> entry; here the map without entries
NoFavorites == [id \in {} |-> id]

\* the state the constructor leaves, with nothing in localStorage; its
\* setViewMode(this.currentViewMode) has stored the view mode
InitialApp ==
  [searchTimeout |-> NoTimer,
   lastSearchTerm |-> <<>>,
   abortController |-> "null",
   searchHistory |-> <<>>,
   storedHistory |-> <<>>,
   favorites |-> NoFavorites,
   storedFavorites |-> NoFavorites,
   currentResults |-> <<>>,
   filteredResults |-> <<>>,
   suggestionIndex |-> -1,
   isShowingFavoritesOnly |-> FALSE,
   currentViewMode |-> "grid",
   storedViewMode |-> "grid",
   availableChannels |-> {},
   selectedChannel |-> <<>>,
   isDestroyed |-> FALSE,
   \* whether the constructor returned (and attached the listeners)
   initialized |-> TRUE,
   \* DOM
   inputValue |-> <<>>,
   results |-> Blank,
   loadingVisible |-> FALSE,
   errorVisible |-> FALSE,
   errorMessage |-> "",
   interfaceVisible |-> TRUE,
   suggestionItems |-> <<>>,
   suggestionsHidden |-> TRUE,
   genreFilter |-> "",
   statusFilter |-> "",
   channelFilter |-> <<>>,
   sortFilter |-> "relevance",
   listView |-> FALSE,
   \* network
   pending |-> {},
   nextId |-> 1,
   \* environment: whether localStorage takes a write, Date.now(), what
   \* window.AppConfig says of analytics, whether gtag is defined and whether
   \* the time zone of the browser is behind UTC
   storageAvailable |-> TRUE,
   behindUTC |-> FALSE,
   now |-> 0,
   appConfig |-> "disabled",
   gtag |-> FALSE,
   \* the analytics manager: its flag, the timer of its next configuration
   \* check and the number of checks that found no configuration
   analytics |-> [isEnabled |-> FALSE, retry |-> NoRetry, polls |-> 0],
   \* whether new AnalyticsManager() threw, so that this.analytics is the
   \* fallback object of the constructor
   analyticsFallback |-> FALSE,
   \* toasts raised by the latest handler
   toasts |-> <<>>]

NoError == MakeError("", "", FALSE, 0, FALSE)

\* op: the handler; value: its argument; id and kind: the request that
\* completed (0 and "" when none did); error: what it rejected with
Event(op, value, id, kind, error) ==
  [op |-> op, value |-> value, id |-> id, kind |-> kind, error |-> error]

Init ==
  /\ optimized \in BOOLEAN
  /\ app = InitialApp
  /\ sinceKey = -1
  /\ accepted = [term |-> <<>>, raw |-> <<>>]
  /\ event = Event("init", <<>>, 0, "", NoError)

(***************************************************************************)
(* Presentation methods.                                                   *)
(***************************************************************************)
showToast(a, message, type) ==
  [a EXCEPT !.toasts = Append(@, [message |-> message, type |-> type])]

showLoading(a) == [a EXCEPT !.loadingVisible = TRUE, !.results = Blank]

hideLoading(a) == [a EXCEPT !.loadingVisible = FALSE]

showError(a, message) ==
  [a EXCEPT !.errorMessage = message, !.errorVisible = TRUE, !.results = Blank]

hideError(a) == [a EXCEPT !.errorVisible = FALSE]

showNoResults(a) == [a EXCEPT !.results = NoResultsView]

showSearchInterface(a) ==
  IF trim(a.inputValue) = <<>> THEN [a EXCEPT !.interfaceVisible = TRUE] ELSE a

hideSearchInterface(a) == [a EXCEPT !.interfaceVisible = FALSE]

hideSuggestions(a) ==
  [a EXCEPT !.suggestionsHidden = TRUE, !.suggestionIndex = -1]

handleError(a, error) ==
  IF error.name = "AbortError" THEN a
  ELSE showToast(showError(a, errorMessageOf(error)), errorMessageOf(error),
                 "error")

(***************************************************************************)
(* Results.                                                                *)
(***************************************************************************)
renderResults(a) ==
  IF optimized /\ a.isDestroyed THEN a
  ELSE IF a.filteredResults = <<>> THEN showNoResults(a)
  ELSE [a EXCEPT !.results = Cards(slice(a.filteredResults, MaxResults))]

\* an applyFilters that sorts the raw array itself: let filtered =
\* this.currentResults in place of the copy [...this.currentResults]
applyFiltersInPlace(a) ==
  LET sorted == [a EXCEPT !.currentResults = sortShows(a.behindUTC, a.sortFilter, @)]
  IN renderResults(
       [sorted EXCEPT !.filteredResults =
          filterAndSort(sorted.currentResults, a.genreFilter, a.statusFilter,
                        a.channelFilter, a.isShowingFavoritesOnly,
                        DOMAIN a.favorites, a.sortFilter, a.behindUTC)])

applyFilters(a) ==
  renderResults(
    [a EXCEPT !.filteredResults =
       filterAndSort(a.currentResults, a.genreFilter, a.statusFilter,
                     a.channelFilter, a.isShowingFavoritesOnly,
                     DOMAIN a.favorites, a.sortFilter, a.behindUTC)])

\* rebuilding the options of the channel select drops the selected option,
\* so the select falls back to its first option, "All Channels"
populateChannelFilter(a) ==
  [a EXCEPT !.availableChannels = channelsOf(a.currentResults),
            !.channelFilter = <<>>]

displayResults(a, data) ==
  LET validShows == SelectSeq(data, isValidShow)
  IN IF data = <<>> \/ validShows = <<>> THEN showNoResults(hideError(a))
     ELSE applyFilters(populateChannelFilter(
            [hideError(a) EXCEPT
               !.currentResults = slice(validShows, MaxResults)]))

(***************************************************************************)
(* The search pipeline.                                                    *)
(*                                                                         *)
(* A request in flight is [id, kind, term, q, signal]: kind says which     *)
(* continuation awaits it ("text": performSearch, "catalog":               *)
(* searchByChannel, "fallback": searchChannelFallback), signal is "none"   *)
(* when the request was issued without an abort signal, "live" when its    *)
(* signal is that of the controller in the slot, "aborted" once that       *)
(* controller was aborted.  Only the controller in the slot is ever live:  *)
(* performSearch aborts it before it replaces it.                          *)
(***************************************************************************)
Request(id, kind, term, q, signal) ==
  [id |-> id, kind |-> kind, term |-> term, q |-> q, signal |-> signal]

\* axios.get(...) with signal: this.abortController?.signal; term is the
\* argument of the method that issues the request, q the query it sends
issueFetch(a, kind, term, q) ==
  [a EXCEPT
     !.pending = @ \cup {Request(a.nextId, kind, term, q,
                    IF a.abortController = "null" THEN "none"
                    ELSE a.abortController)},
     !.nextId = @ + 1]

\* this.abortController.abort(): every request that holds the signal rejects
abortCurrent(a) ==
  IF a.abortController = "null" THEN a
  ELSE [a EXCEPT
          !.abortController = "aborted",
          !.pending = {IF r.signal = "live"
                       THEN [r EXCEPT !.signal = "aborted"] ELSE r : r \in @}]

\* an addToSearchHistory that does not remove the entry equal to the term
addToSearchHistoryUnfiltered(a, searchTerm) ==
  LET history == slice(<<searchTerm>> \o a.searchHistory, MaxHistory)
  IN [a EXCEPT !.searchHistory = history, !.storedHistory = history]

\* localStorage.setItem(key, JSON.stringify(value)) on a storage that takes
\* the write; the values stored (lists of strings, maps of entries with
\* numbers and strings) are what JSON.parse gives back
setItem(a, key, value) == [a EXCEPT ![key] = value]

\* saveToStorage of the optimized build: a write that fails raises a toast
saveToStorage(a, key, value) ==
  IF a.storageAvailable THEN setItem(a, key, value)
  ELSE showToast(a, MsgStorage, "error")

\* in app.js the write is a bare localStorage.setItem: when it throws, the
\* method ends there, after the assignment to this.searchHistory
addToSearchHistory(a, searchTerm) ==
  IF optimized /\ Len(searchTerm) < MinTermLen THEN a
  ELSE LET history ==
             slice(<<searchTerm>> \o
                   SelectSeq(a.searchHistory, LAMBDA term : term # searchTerm),
                   MaxHistory)
           kept == [a EXCEPT !.searchHistory = history]
       IN IF optimized THEN saveToStorage(kept, "storedHistory", history)
          ELSE IF a.storageAvailable THEN setItem(kept, "storedHistory", history)
          ELSE kept

\* a performSearch that sends whatever sanitizing leaves, the empty string
\* included
performSearchUnvalidated(a, searchTerm) ==
  LET fresh == [abortCurrent(a) EXCEPT
                  !.abortController = "live",
                  !.lastSearchTerm = searchTerm]
      shown == hideSuggestions(hideSearchInterface(
                 hideError(showLoading(fresh))))
  IN issueFetch(addToSearchHistory(shown, searchTerm), "text", searchTerm,
                sanitizeInput(optimized, searchTerm))

\* performSearch up to its await (or to its end, when it throws before it)
performSearch(a, searchTerm) ==
  IF optimized
  THEN IF a.isDestroyed THEN a
       ELSE LET fresh == [abortCurrent(a) EXCEPT
                            !.abortController = "live",
                            !.lastSearchTerm = searchTerm]
                shown == hideSuggestions(hideSearchInterface(
                           hideError(showLoading(fresh))))
                logged == addToSearchHistory(shown, searchTerm)
                sanitizedTerm == sanitizeInput(TRUE, searchTerm)
            IN IF sanitizedTerm = <<>>
               THEN hideLoading(handleError(logged, InvalidTermError))
               ELSE issueFetch(logged, "text", searchTerm, sanitizedTerm)
  ELSE LET fresh == [abortCurrent(a) EXCEPT
                       !.abortController = "live",
                       !.lastSearchTerm = searchTerm]
           \* showLoading, hideError, then this.hideQuickSearch() throws
       IN hideLoading(handleError(hideError(showLoading(fresh)),
                                  HideQuickSearchTypeError))

\* performSearch after its await: the response arrived
performSearchResolved(a, r, data) ==
  IF optimized /\ a.isDestroyed THEN hideLoading(a)
  ELSE hideLoading(displayResults([a EXCEPT !.currentResults = data], data))

\* performSearch after its await: the request rejected
performSearchRejected(a, r, error) ==
  IF optimized /\ error.name = "AbortError" THEN hideLoading(a)
  ELSE hideLoading(handleError(a, error))

\* searchByChannel up to its await
searchByChannel(a, channel) ==
  issueFetch(
    hideSearchInterface(showLoading([a EXCEPT !.selectedChannel = channel])),
    "catalog", channel, <<>>)

\* searchChannelFallback up to its await; searchByChannel awaits it
searchChannelFallback(a, channel) ==
  issueFetch(a, "fallback", channel, channel)

\* searchByChannel after its await: the catalog arrived
searchByChannelResolved(a, r, data) ==
  LET channelShows == SelectSeq(data, LAMBDA id : matchesChannel(id, r.term))
      kept == [a EXCEPT !.currentResults = channelShows]
  IN IF channelShows = <<>> THEN searchChannelFallback(kept, r.term)
     ELSE hideLoading(showToast(displayResults(kept, channelShows),
                                "Found shows on channel", "success"))

\* searchByChannel after its await: the catalog request rejected
searchByChannelRejected(a, r, error) == searchChannelFallback(a, r.term)

\* searchChannelFallback after its await, then searchByChannel's finally
searchChannelFallbackResolved(a, r, data) ==
  hideLoading(
    showToast(displayResults([a EXCEPT !.currentResults = data], data),
              IF data # <<>> THEN "Found related shows" ELSE "No shows found",
              IF data # <<>> THEN "info" ELSE "error"))

searchChannelFallbackRejected(a, r, error) == hideLoading(handleError(a, error))

\* the continuation that awaits request r, run on a response
resolved(a, r, data) ==
  CASE r.kind = "text" -> performSearchResolved(a, r, data)
    [] r.kind = "catalog" -> searchByChannelResolved(a, r, data)
    [] r.kind = "fallback" -> searchChannelFallbackResolved(a, r, data)

\* the continuation that awaits request r, run on a rejection
rejected(a, r, error) ==
  CASE r.kind = "text" -> performSearchRejected(a, r, error)
    [] r.kind = "catalog" -> searchByChannelRejected(a, r, error)
    [] r.kind = "fallback" -> searchChannelFallbackRejected(a, r, error)

\* what the endpoint of request r may answer
responsesFor(r) == IF r.kind = "catalog" THEN Catalogs ELSE TextResponses

(***************************************************************************)
(* Input handling.                                                         *)
(***************************************************************************)
startTimer(a, searchTerm) ==
  [a EXCEPT !.searchTimeout =
     [active |-> TRUE, term |-> searchTerm, remaining |-> DebounceDelay]]

\* debouncedSearch at the input event
debouncedSearch(a, searchTerm) ==
  IF optimized THEN startTimer(a, searchTerm)
  ELSE LET cleared == [a EXCEPT !.searchTimeout = NoTimer]
       IN IF Len(searchTerm) < MinTermLen THEN showSearchInterface(cleared)
          ELSE IF searchTerm = a.lastSearchTerm THEN cleared
          ELSE startTimer(cleared, searchTerm)

\* the callback of the debounce timer
debounceCallback(a, searchTerm) ==
  IF optimized
  THEN IF Len(searchTerm) < MinTermLen THEN showSearchInterface(a)
       ELSE IF searchTerm = a.lastSearchTerm THEN a
       ELSE performSearch(a, searchTerm)
  ELSE performSearch(a, searchTerm)

showSearchSuggestions(a, searchTerm) ==
  IF Len(searchTerm) < MinTermLen THEN hideSuggestions(a)
  ELSE LET suggestions ==
             slice(SelectSeq(a.searchHistory, LAMBDA term :
                     includes(toLowerCase(term), toLowerCase(searchTerm))), 5)
       IN IF suggestions # <<>>
          THEN [a EXCEPT !.suggestionItems = suggestions,
                         !.suggestionsHidden = FALSE,
                         !.suggestionIndex = -1]
          ELSE hideSuggestions(a)

handleInput(a, value) ==
  showSearchSuggestions(
    debouncedSearch([a EXCEPT !.inputValue = value], value), value)

handleSearch(a) ==
  LET searchTerm == trim(a.inputValue)
  IN IF searchTerm = <<>>
     THEN showToast(a, "Please enter a search term", "error")
     ELSE IF Len(searchTerm) < MinTermLen
     THEN showToast(a, "Search term must be at least 2 characters long",
                    "error")
     ELSE performSearch(a, searchTerm)

\* handleSuggestionNavigation: the keydown listener of the search box.  The
\* items are those that showSearchSuggestions rendered last: hideSuggestions
\* hides the list and leaves them in place.  An item's textContent is the
\* history entry it was rendered from (escapeHtml and the parser undo each
\* other).
handleSuggestionNavigation(a, key) ==
  IF a.suggestionItems = <<>> THEN a
  ELSE CASE key = "ArrowDown" ->
              [a EXCEPT !.suggestionIndex =
                 Min(@ + 1, Len(a.suggestionItems) - 1)]
         [] key = "ArrowUp" ->
              [a EXCEPT !.suggestionIndex = Max(@ - 1, -1)]
         [] key = "Enter" /\ a.suggestionIndex >= 0 ->
              LET selectedSuggestion == a.suggestionItems[a.suggestionIndex + 1]
              IN hideSuggestions(
                   performSearch([a EXCEPT !.inputValue = selectedSuggestion],
                                 selectedSuggestion))
         [] OTHER -> a

\* a key pressed in the search box: the keydown listener and then, for an
\* Enter that the listener did not preventDefault, the submission of the form
keydown(a, key) ==
  IF key = "Enter" /\ ~(a.suggestionItems # <<>> /\ a.suggestionIndex >= 0)
  THEN handleSearch(a)
  ELSE handleSuggestionNavigation(a, key)

(***************************************************************************)
(* Favorites.  An entry holds the id and the name of the show and the time *)
(* it was added (its image reference is left out).                         *)
(***************************************************************************)
FavoriteEntry(id, addedAt) ==
  [id |-> id, name |-> ShowOf[id].name, addedAt |-> addedAt]

\* an assignment that files the entry under the id after showId
withFavoriteMisfiled(favorites, showId, entry) ==
  [id \in DOMAIN favorites \cup {(showId % Cardinality(ShowIds)) + 1} |->
     IF id = (showId % Cardinality(ShowIds)) + 1 THEN entry ELSE favorites[id]]

\* this.favorites[showId] = entry
withFavorite(favorites, showId, entry) ==
  [id \in DOMAIN favorites \cup {showId} |->
     IF id = showId THEN entry ELSE favorites[id]]

\* delete this.favorites[showId]
withoutFavorite(favorites, showId) ==
  [id \in DOMAIN favorites \ {showId} |-> favorites[id]]

\* a toggleFavorite that writes the map to storage before it changes it
toggleFavoriteWriteFirst(a, showId) ==
  IF showId \notin Range(a.currentResults) THEN a
  ELSE LET saved == IF a.storageAvailable
                    THEN setItem(a, "storedFavorites", a.favorites) ELSE a
       IN IF showId \in DOMAIN a.favorites
          THEN [saved EXCEPT !.favorites = withoutFavorite(@, showId)]
          ELSE [saved EXCEPT !.favorites =
                  withFavorite(@, showId, FavoriteEntry(showId, a.now))]

\* toggleFavorite; the write is a bare localStorage.setItem: when it throws,
\* the handler ends there, before the favorites-only view is refreshed
toggleFavorite(a, showId) ==
  IF showId \notin Range(a.currentResults) THEN a
  ELSE LET changed ==
             IF showId \in DOMAIN a.favorites
             THEN showToast([a EXCEPT !.favorites = withoutFavorite(@, showId)],
                            "removed from favorites", "info")
             ELSE showToast([a EXCEPT !.favorites =
                               withFavorite(@, showId,
                                            FavoriteEntry(showId, a.now))],
                            "added to favorites", "success")
       IN IF ~a.storageAvailable THEN changed
          ELSE LET saved == setItem(changed, "storedFavorites", changed.favorites)
               IN IF saved.isShowingFavoritesOnly THEN applyFilters(saved)
                  ELSE saved

toggleFavoritesView(a) ==
  applyFilters(
    showToast([a EXCEPT !.isShowingFavoritesOnly = ~@],
              IF a.isShowingFavoritesOnly THEN "Showing all shows"
              ELSE "Showing favorites only", "info"))

(***************************************************************************)
(* Clearing.                                                               *)
(***************************************************************************)
clearResults(a) ==
  [hideLoading(hideError(a)) EXCEPT
     !.results = Blank, !.currentResults = <<>>, !.filteredResults = <<>>]

\* clearSearch; its last statement, this.showQuickSearch(), throws (no build
\* defines the method) once everything else is done
clearSearch(a) == hideSuggestions(clearResults([a EXCEPT !.inputValue = <<>>]))

clearAllFilters(a) ==
  LET reset == [a EXCEPT !.genreFilter = "", !.statusFilter = "",
                         !.channelFilter = <<>>, !.sortFilter = "relevance",
                         !.selectedChannel = <<>>]
      all == IF reset.isShowingFavoritesOnly THEN toggleFavoritesView(reset)
             ELSE reset
  IN showToast(showSearchInterface(clearResults(
       [all EXCEPT !.inputValue = <<>>])), "All filters cleared", "info")

(***************************************************************************)
(* View mode.                                                              *)
(***************************************************************************)
\* setViewMode; the write is a bare localStorage.setItem: when it throws, the
\* method ends there, before the classes of the results are switched
setViewMode(a, mode) ==
  LET set == [a EXCEPT !.currentViewMode = mode]
  IN IF ~a.storageAvailable THEN set
     ELSE [setItem(set, "storedViewMode", mode) EXCEPT
             !.listView = (mode # "grid")]

(***************************************************************************)
(* Construction.  What localStorage holds under a key is missing, a text    *)
(* that JSON.parse rejects ("corrupt"), or a text that holds a value; a     *)
(* storage that is disabled throws on every access.                         *)
(***************************************************************************)
Missing == [kind |-> "missing"]
Corrupt == [kind |-> "corrupt"]
Holding(value) == [kind |-> "value", value |-> value]

\* JSON.parse(localStorage.getItem(key) || default) of app.js, when the text
\* parses
parsed(item, default) == IF item.kind = "value" THEN item.value ELSE default

\* loadFromStorage of the optimized build: the default when the key is
\* missing and when reading or parsing throws
loadFromStorage(storage, item, default) ==
  IF ~storage.enabled \/ item.kind # "value" THEN default ELSE item.value

\* whether the constructor throws: in app.js on the first access of a
\* disabled storage and on a text that does not parse (lines 22-27), in the
\* optimized build on the bare read of the view mode from a disabled
\* storage (line 27)
constructorThrows(opt, storage) ==
  IF opt THEN ~storage.enabled
  ELSE \/ ~storage.enabled
       \/ storage.history.kind = "corrupt"
       \/ storage.favorites.kind = "corrupt"

\* the state the constructor leaves.  The stored fields hold what parses
\* from the texts in storage (the default where none does).
constructor(opt, storage) ==
  LET found == [InitialApp EXCEPT
                  !.storedHistory = parsed(storage.history, <<>>),
                  !.storedFavorites = parsed(storage.favorites, NoFavorites),
                  !.storedViewMode = parsed(storage.viewMode, ""),
                  !.storageAvailable = storage.enabled]
  IN IF constructorThrows(opt, storage)
     THEN [found EXCEPT !.initialized = FALSE]
     ELSE setViewMode(
            [found EXCEPT
               !.searchHistory =
                  IF opt THEN loadFromStorage(storage, storage.history, <<>>)
                  ELSE parsed(storage.history, <<>>),
               !.favorites =
                  IF opt
                  THEN loadFromStorage(storage, storage.favorites, NoFavorites)
                  ELSE parsed(storage.favorites, NoFavorites)],
            IF parsed(storage.viewMode, "") = "" THEN "grid"
            ELSE storage.viewMode.value)

(***************************************************************************)
(* The analytics manager (constructed by the optimized build).             *)
(* window.AppConfig is "absent" until the configuration script has run;    *)
(* then it says "enabled" or "disabled".                                   *)
(***************************************************************************)
\* checkConfig of initializeWhenReady
checkConfig(a) ==
  IF a.appConfig # "absent"
  THEN [a EXCEPT !.analytics.isEnabled = (a.appConfig = "enabled" /\ a.gtag)]
  ELSE [a EXCEPT
          !.analytics.retry = [active |-> TRUE, remaining |-> PollDelay],
          !.analytics.polls = Min(@ + 1, MaxPolls)]

(***************************************************************************)
(* Teardown (the optimized build; app.js has none).                        *)
(***************************************************************************)
\* cleanup: the flag, clearTimeout(this.searchTimeout), abort()
cleanup(a) ==
  abortCurrent([a EXCEPT !.isDestroyed = TRUE, !.searchTimeout = NoTimer])

\* handleBeforeUnload: this.analytics.trackSessionEnd() and then cleanup, in
\* one try.  The fallback object has no trackSessionEnd, so the call throws
\* a TypeError, which the catch logs; the manager's trackSessionEnd returns.
handleBeforeUnload(a) == IF a.analyticsFallback THEN a ELSE cleanup(a)

(***************************************************************************)
(* Actions: one per event the controller handles.  Each handler runs to    *)
(* its await or to its end.  A request whose signal was aborted rejects at  *)
(* once, before any other event is handled (NoRejectionDue).               *)
(***************************************************************************)
NoRejectionDue == \A r \in app.pending : r.signal # "aborted"

\* a handler starts with no toast of its own raised yet
begin(a) == [a EXCEPT !.toasts = <<>>]

\* the model issues at most MaxFetches requests
Run(next) ==
  /\ next.nextId <= MaxFetches + 1
  /\ app' = next

\* whether the continuation of r, run on a response, applies a result set
applies(a, r, data) ==
  CASE r.kind = "text" -> ~(optimized /\ a.isDestroyed)
    [] r.kind = "catalog" ->
         SelectSeq(data, LAMBDA id : matchesChannel(id, r.term)) # <<>>
    [] r.kind = "fallback" -> TRUE

\* a step of a handler that is no search completing
Handled(next, op, value) ==
  /\ NoRejectionDue
  /\ Run(next)
  /\ event' = Event(op, value, 0, "", NoError)
  /\ UNCHANGED <<optimized, accepted>>

\* "input" event of the search box
Input(value) ==
  /\ Handled(handleInput(begin(app), value), "input", value)
  /\ sinceKey' = 0

\* time passes; a timer that is due fires before more time passes
Tick ==
  /\ app.searchTimeout.active => app.searchTimeout.remaining > 0
  /\ app.searchTimeout.active \/ (sinceKey >= 0 /\ sinceKey < DebounceDelay)
  /\ Handled(IF app.searchTimeout.active
             THEN [app EXCEPT
                     !.searchTimeout.remaining = Max(@ - TickUnit, 0)]
             ELSE app, "tick", <<>>)
  /\ sinceKey' = IF sinceKey < 0 THEN sinceKey
                 ELSE Min(sinceKey + TickUnit, DebounceDelay)

\* the debounce timer fires
TimerFire ==
  /\ app.searchTimeout.active
  /\ app.searchTimeout.remaining = 0
  /\ Handled(debounceCallback([begin(app) EXCEPT !.searchTimeout = NoTimer],
                              app.searchTimeout.term),
             "timer", app.searchTimeout.term)
  /\ UNCHANGED sinceKey

\* the form is submitted, or the retry button is clicked
Submit ==
  /\ Handled(handleSearch(begin(app)), "submit", trim(app.inputValue))
  /\ UNCHANGED sinceKey

\* a genre pill is clicked
GenrePillClick(genre) ==
  /\ Handled(hideSearchInterface(
               performSearch([begin(app) EXCEPT !.inputValue = genre], genre)),
             "pill", genre)
  /\ UNCHANGED sinceKey

\* a category item is clicked
CategoryClick(channel) ==
  /\ Handled(searchByChannel(begin(app), channel), "category", channel)
  /\ UNCHANGED sinceKey

\* a filter or sort select changes
ChangeGenre(genre) ==
  /\ genre # app.genreFilter
  /\ Handled(applyFilters([begin(app) EXCEPT !.genreFilter = genre]),
             "filter", <<>>)
  /\ UNCHANGED sinceKey

ChangeStatus(status) ==
  /\ status # app.statusFilter
  /\ Handled(applyFilters([begin(app) EXCEPT !.statusFilter = status]),
             "filter", <<>>)
  /\ UNCHANGED sinceKey

ChangeChannel(channel) ==
  /\ channel # app.channelFilter
  /\ Handled(applyFilters([begin(app) EXCEPT !.channelFilter = channel]),
             "filter", <<>>)
  /\ UNCHANGED sinceKey

ChangeSort(sortBy) ==
  /\ sortBy # app.sortFilter
  /\ Handled(applyFilters([begin(app) EXCEPT !.sortFilter = sortBy]),
             "filter", <<>>)
  /\ UNCHANGED sinceKey

\* the response of request r arrives
Respond(r, data) ==
  /\ NoRejectionDue
  /\ Run(resolved([begin(app) EXCEPT !.pending = @ \ {r}], r, data))
  /\ accepted' = IF applies(app, r, data)
                 THEN [term |-> r.term, raw |-> app'.currentResults]
                 ELSE accepted
  /\ event' = Event("respond", r.term, r.id, r.kind, NoError)
  /\ UNCHANGED <<optimized, sinceKey>>

\* request r fails in transport
Fail(r, error) ==
  /\ NoRejectionDue
  /\ Run(rejected([begin(app) EXCEPT !.pending = @ \ {r}], r, error))
  /\ event' = Event("fail", r.term, r.id, r.kind, error)
  /\ UNCHANGED <<optimized, sinceKey, accepted>>

\* request r, whose signal was aborted, rejects
Cancel(r, error) ==
  /\ r.signal = "aborted"
  /\ Run(rejected([begin(app) EXCEPT !.pending = @ \ {r}], r, error))
  /\ event' = Event("cancel", r.term, r.id, r.kind, error)
  /\ UNCHANGED <<optimized, sinceKey, accepted>>

Settle ==
  \/ \E r \in app.pending : \E data \in responsesFor(r) : Respond(r, data)
  \/ \E r \in app.pending : \E error \in TransportErrors : Fail(r, error)
  \/ \E r \in app.pending : \E error \in CancelErrors : Cancel(r, error)

\* the search pipeline: typing, the debounce timer, direct searches, category
\* clicks and the completion of requests
Next ==
  \/ \E value \in InputValues : Input(value)
  \/ Tick
  \/ TimerFire
  \/ Submit
  \/ \E genre \in PillTerms : GenrePillClick(genre)
  \/ \E channel \in Channels : CategoryClick(channel)
  \/ Settle

Spec == Init /\ [][Next]_vars

\* searches and the filter / sort selects, without the debounce
ViewNext ==
  \/ \E genre \in PillTerms : GenrePillClick(genre)
  \/ \E channel \in Channels : CategoryClick(channel)
  \/ \E genre \in Genres : ChangeGenre(genre)
  \/ \E status \in Statuses : ChangeStatus(status)
  \/ \E channel \in {<<>>} \cup app.availableChannels : ChangeChannel(channel)
  \/ \E sortBy \in SortKeys : ChangeSort(sortBy)
  \/ Settle

SpecView == Init /\ [][ViewNext]_vars

(***************************************************************************)
(* Searches answered with result lists around the length limit of           *)
(* displayResults: one entry less than the limit, as many, one more.  A     *)
(* list repeats one show (a show of HBO, or the nameless show), or cycles   *)
(* through all shows.                                                       *)
(***************************************************************************)
LongResponses ==
  {[i \in 1..n |-> IF id = 0 THEN (i % Cardinality(ShowIds)) + 1 ELSE id] :
     n \in (MaxResults - 1)..(MaxResults + 1), id \in {0, 1, 4}}

\* the response of request r arrives; the event keeps the list it carried
Answer(r, data) ==
  /\ NoRejectionDue
  /\ Run(resolved([begin(app) EXCEPT !.pending = @ \ {r}], r, data))
  /\ accepted' = IF applies(app, r, data)
                 THEN [term |-> r.term, raw |-> app'.currentResults]
                 ELSE accepted
  /\ event' = [op |-> "answer", value |-> r.term, id |-> r.id,
               kind |-> r.kind, error |-> NoError, data |-> data]
  /\ UNCHANGED <<optimized, sinceKey>>

ClampNext ==
  \/ \E genre \in PillTerms : GenrePillClick(genre)
  \/ CategoryClick(HBO)
  \/ \E r \in app.pending : \E data \in LongResponses : Answer(r, data)
  \/ \E r \in app.pending : \E error \in CancelErrors : Cancel(r, error)

SpecClamp == Init /\ [][ClampNext]_vars

(***************************************************************************)
(* Category clicks by themselves, with labels that are a network name, a    *)
(* part of one, a network name with more behind it, and a name that no      *)
(* show carries.                                                            *)
(***************************************************************************)
ChannelLabels == {HBO, <<"h", "b">>, HBO \o <<" ", "x">>, Netflix}

ChannelNext ==
  \/ \E channel \in ChannelLabels : CategoryClick(channel)
  \/ \E r \in app.pending : \E data \in responsesFor(r) : Answer(r, data)

SpecChannel == Init /\ [][ChannelNext]_vars

(***************************************************************************)
(* The filter and sort selects over result sets in every order.  A click on *)
(* a channel that no show of the catalog carries leads, in both builds, to  *)
(* the fallback search, whose answer becomes the raw result set.            *)
(***************************************************************************)
\* the lists of up to three different named shows
FilterResponses ==
  {data \in UNION {[1..n -> ShowIds] : n \in 1..3} :
     /\ \A i, j \in DOMAIN data : data[i] = data[j] => i = j
     /\ \A i \in DOMAIN data : isValidShow(data[i])}

FilterNext ==
  \/ CategoryClick(Netflix)
  \/ \E r \in app.pending :
       \E data \in IF r.kind = "catalog" THEN {<<1, 2>>} ELSE FilterResponses :
         Answer(r, data)
  \/ \E genre \in Genres : ChangeGenre(genre)
  \/ \E status \in Statuses : ChangeStatus(status)
  \/ \E channel \in {<<>>} \cup app.availableChannels : ChangeChannel(channel)
  \/ \E sortBy \in SortKeys : ChangeSort(sortBy)

SpecFilter == Init /\ [][FilterNext]_vars

(***************************************************************************)
(* sanitizeInput by itself, applied to strings with markup, blanks and tabs *)
(* in them, short ones and ones that reach past the length limit.           *)
(***************************************************************************)
SanitizeAlphabet == {"a", " ", "\t", "<"}

\* a prefix that leaves room for two more characters below the limit
LongPrefix == [i \in 1..(MaxTermLen - 2) |-> "a"]

SanitizeInputs ==
  {prefix \o tail : prefix \in {<<>>, LongPrefix},
                    tail \in UNION {[1..n -> SanitizeAlphabet] : n \in 0..MaxTail}}

\* a call of a method that returns a value
Call(op, value, result) == [op |-> op, value |-> value, result |-> result]

\* one string is sanitized in a run
Sanitize(input) ==
  /\ event.op = "init"
  /\ event' = Call("sanitizeInput", input, sanitizeInput(optimized, input))
  /\ UNCHANGED <<optimized, app, sinceKey, accepted>>

SanitizeNext == \E input \in SanitizeInputs : Sanitize(input)

SpecSanitize == Init /\ [][SanitizeNext]_vars

(***************************************************************************)
(* Typed searches whose terms carry characters that sanitizeInput removes.  *)
(***************************************************************************)
\* the (trimmed) values the user may type
MarkupValues == {<<"a">>, <<"a", "b">>, <<"a", "<", "b">>, <<"<", ">">>}

MarkupNext ==
  \/ \E value \in MarkupValues : Input(value)
  \/ Tick
  \/ TimerFire
  \/ Submit
  \/ Settle

SpecMarkup == Init /\ [][MarkupNext]_vars

(***************************************************************************)
(* The search history by itself: addToSearchHistory applied to one term     *)
(* after another, starting from the empty history.  The terms are one more  *)
(* than the history holds, so that the oldest entry is dropped; the term    *)
(* searched is the next term not searched before, an entry of the           *)
(* history (the latest, or one of the first two terms), or a one-character  *)
(* term.                                                                    *)
(***************************************************************************)
HistoryTerms ==
  [i \in 1..(MaxHistory + 1) |->
     <<"s", <<"a", "b", "c", "d", "e", "f", "g", "h", "i", "j", "k">>[i]>>]

\* the index of a term
TermIndex(term) == CHOOSE i \in DOMAIN HistoryTerms : HistoryTerms[i] = term

\* the terms not searched yet: those after the last term of the history
FreshTerms(history) ==
  {HistoryTerms[i] : i \in {i \in DOMAIN HistoryTerms :
     \A j \in 1..Len(history) :
       history[j] \in Range(HistoryTerms) => TermIndex(history[j]) < i}}

Recorded(term) ==
  /\ app' = addToSearchHistory(app, term)
  /\ event' = Event("history", term, 0, "", NoError)
  /\ UNCHANGED <<optimized, sinceKey, accepted>>

\* a term that is not in the history is searched
RecordFresh ==
  \E term \in FreshTerms(app.searchHistory) :
    /\ \A other \in FreshTerms(app.searchHistory) :
         TermIndex(term) <= TermIndex(other)
    /\ Recorded(term)

\* an entry is searched again: the latest one, or one of the first two terms
RecordAgain ==
  \E term \in {Head(HistoryTerms), HistoryTerms[2]}
                 \cup {app.searchHistory[i] : i \in {1} \cap DOMAIN app.searchHistory} :
    /\ term \in Range(app.searchHistory)
    /\ Recorded(term)

\* a one-character term is searched (a genre pill may carry one)
RecordShort == Recorded(<<"s">>)

HistoryNext == RecordFresh \/ RecordAgain \/ RecordShort

SpecHistory == Init /\ [][HistoryNext]_vars

(***************************************************************************)
(* Favorites: searches that bring result sets, clicks on the favorite       *)
(* button of a card on display and on the favorites-only toggle.  elapsed   *)
(* is the time that passed on the clock since the handler before.           *)
(***************************************************************************)
\* the shows whose cards are on display
ShownCards == IF app.results.kind = "cards" THEN Range(app.results.ids) ELSE {}

\* the favorite button of a card is clicked; the event keeps the favorites
\* map and the stored map of before the click
ToggleFavorite(showId, elapsed) ==
  /\ showId \in ShownCards
  /\ app.now + elapsed <= MaxClock
  /\ NoRejectionDue
  /\ Run(toggleFavorite([begin(app) EXCEPT !.now = @ + elapsed], showId))
  /\ event' = [op |-> "favorite", value |-> <<>>, id |-> 0, kind |-> "",
               error |-> NoError, showId |-> showId,
               before |-> app.favorites, storedBefore |-> app.storedFavorites]
  /\ UNCHANGED <<optimized, sinceKey, accepted>>

\* the favorites-only button is clicked (or the F key pressed)
ToggleFavoritesView ==
  /\ Handled(toggleFavoritesView(begin(app)), "favoritesView", <<>>)
  /\ UNCHANGED sinceKey

\* the shows that the responses of the run have carried so far
FetchedSoFar == IF "fetched" \in DOMAIN accepted THEN accepted.fetched ELSE {}

\* the response of request r arrives; accepted keeps, besides the latest
\* search applied, the shows fetched so far
Arrive(r, data) ==
  /\ NoRejectionDue
  /\ Run(resolved([begin(app) EXCEPT !.pending = @ \ {r}], r, data))
  /\ accepted' = [term |-> IF applies(app, r, data) THEN r.term
                           ELSE accepted.term,
                  raw |-> IF applies(app, r, data) THEN app'.currentResults
                          ELSE accepted.raw,
                  fetched |-> FetchedSoFar \cup Range(data)]
  /\ event' = [op |-> "answer", value |-> r.term, id |-> r.id,
               kind |-> r.kind, error |-> NoError, data |-> data]
  /\ UNCHANGED <<optimized, sinceKey>>

FavoritesNext ==
  \/ \E genre \in PillTerms : GenrePillClick(genre)
  \/ CategoryClick(HBO)
  \/ \E r \in app.pending : \E data \in responsesFor(r) : Arrive(r, data)
  \/ \E showId \in ShowIds : \E elapsed \in {0, 1} :
       ToggleFavorite(showId, elapsed)
  \/ ToggleFavoritesView

SpecFavorites == Init /\ [][FavoritesNext]_vars

(***************************************************************************)
(* Searches and favorite clicks with a localStorage that may stop taking    *)
(* writes (quota exceeded, storage disabled) and take them again.           *)
(***************************************************************************)
SwitchStorage ==
  /\ Handled([app EXCEPT !.storageAvailable = ~@], "storage", <<>>)
  /\ UNCHANGED sinceKey

StorageNext ==
  \/ \E genre \in PillTerms : GenrePillClick(genre)
  \/ CategoryClick(HBO)
  \/ \E r \in app.pending : \E data \in responsesFor(r) : Arrive(r, data)
  \/ \E showId \in ShowIds : ToggleFavorite(showId, 0)
  \/ SwitchStorage

SpecStorage == Init /\ [][StorageNext]_vars

(***************************************************************************)
(* The favorites-only view with a localStorage that may stop taking writes. *)
(***************************************************************************)
FavoritesViewNext ==
  \/ CategoryClick(HBO)
  \/ \E r \in app.pending : \E data \in responsesFor(r) : Arrive(r, data)
  \/ \E showId \in ShowIds : ToggleFavorite(showId, 0)
  \/ ToggleFavoritesView
  \/ SwitchStorage

SpecFavoritesView == Init /\ [][FavoritesViewNext]_vars

(***************************************************************************)
(* handleError by itself, applied to what a search may throw: a timeout, a  *)
(* connection error, a response with an HTTP status outside 2xx, an error   *)
(* raised by the controller itself, a cancellation.                         *)
(***************************************************************************)
HttpStatuses == {400, 401, 403, 404, 408, 429} \cup 500..599

ErrorInputs ==
  {TimeoutError, NetworkError, InvalidTermError, HideQuickSearchTypeError}
    \cup CancelErrors \cup {HttpError(status) : status \in HttpStatuses}

HandleError(error) ==
  /\ app' = handleError(begin(app), error)
  /\ event' = Event("handleError", <<>>, 0, "", error)
  /\ UNCHANGED <<optimized, sinceKey, accepted>>

ErrorNext == \E error \in ErrorInputs : HandleError(error)

SpecError == Init /\ [][ErrorNext]_vars

(***************************************************************************)
(* Page loads over what an earlier session, or anything else that writes to *)
(* the storage of the origin, has left in localStorage; then category       *)
(* searches and clicks on the view buttons.                                 *)
(***************************************************************************)
HistoryItems == {Missing, Corrupt, Holding(<<>>), Holding(<<<<"a", "b">>>>)}

FavoritesItems ==
  {Missing, Corrupt, Holding(NoFavorites),
   Holding(withFavorite(NoFavorites, 2, FavoriteEntry(2, 0)))}

ViewModeItems == {Missing, Holding("grid"), Holding("list"), Holding("table")}

Storages ==
  [history : HistoryItems, favorites : FavoritesItems,
   viewMode : ViewModeItems, enabled : BOOLEAN]

\* the event of construction keeps what the constructor found in storage
BootInit ==
  /\ optimized \in BOOLEAN
  /\ \E storage \in Storages :
       /\ app = constructor(optimized, storage)
       /\ event = [op |-> "init", value |-> <<>>, id |-> 0, kind |-> "",
                   error |-> NoError, storage |-> storage]
  /\ sinceKey = -1
  /\ accepted = [term |-> <<>>, raw |-> <<>>]

\* the grid or the list button is clicked
SetViewMode(mode) ==
  /\ app.initialized
  /\ Handled(setViewMode(begin(app), mode), "viewMode", <<>>)
  /\ UNCHANGED sinceKey

BootNext ==
  \/ \E mode \in {"grid", "list"} : SetViewMode(mode)
  \/ app.initialized /\ CategoryClick(HBO)
  \/ \E r \in app.pending : \E data \in responsesFor(r) : Arrive(r, data)

SpecBoot == BootInit /\ [][BootNext]_vars

(***************************************************************************)
(* The search pipeline of a page that may be left: beforeunload runs        *)
(* cleanup, which removes the listeners it tracked, so that afterwards only *)
(* the callbacks of what was pending can run.                               *)
(***************************************************************************)
\* "beforeunload" of the window (handleBeforeUnload calls cleanup once
\* this.analytics.trackSessionEnd() has returned)
Cleanup ==
  /\ optimized
  /\ ~app.isDestroyed
  /\ Handled(cleanup(begin(app)), "cleanup", <<>>)
  /\ UNCHANGED sinceKey

TeardownNext ==
  \/ ~app.isDestroyed /\ Input(<<"a", "b">>)
  \/ Tick
  \/ TimerFire
  \/ ~app.isDestroyed /\ \E genre \in PillTerms : GenrePillClick(genre)
  \/ ~app.isDestroyed /\ CategoryClick(HBO)
  \/ Settle
  \/ Cleanup

SpecTeardown == Init /\ [][TeardownNext]_vars

(***************************************************************************)
(* The analytics manager waiting for its configuration.  The constructor    *)
(* runs checkConfig once; a timer that was set comes due and fires (weak    *)
(* fairness: the browser runs a timer that is due); the configuration       *)
(* script may run at any time, or never.                                    *)
(***************************************************************************)
AnalyticsInit ==
  /\ optimized = TRUE
  /\ \E config \in {"absent", "enabled", "disabled"} : \E gtag \in BOOLEAN :
       app = checkConfig([InitialApp EXCEPT !.appConfig = config,
                                            !.gtag = gtag])
  /\ sinceKey = -1
  /\ accepted = [term |-> <<>>, raw |-> <<>>]
  /\ event = Event("init", <<>>, 0, "", NoError)

\* the configuration script runs
ConfigLoads(config) ==
  /\ app.appConfig = "absent"
  /\ Handled([app EXCEPT !.appConfig = config], "config", <<>>)
  /\ UNCHANGED sinceKey

\* the delay of the retry timer passes
PollTick ==
  /\ app.analytics.retry.active
  /\ app.analytics.retry.remaining > 0
  /\ Handled([app EXCEPT !.analytics.retry.remaining = 0], "tick", <<>>)
  /\ UNCHANGED sinceKey

\* the retry timer fires: checkConfig runs again
CheckConfig ==
  /\ app.analytics.retry.active
  /\ app.analytics.retry.remaining = 0
  /\ Handled(checkConfig([app EXCEPT !.analytics.retry = NoRetry]),
             "checkConfig", <<>>)
  /\ UNCHANGED sinceKey

AnalyticsNext ==
  \/ \E config \in {"enabled", "disabled"} : ConfigLoads(config)
  \/ PollTick
  \/ CheckConfig

SpecAnalytics ==
  /\ AnalyticsInit
  /\ [][AnalyticsNext]_vars
  /\ WF_vars(PollTick)
  /\ WF_vars(CheckConfig)

(***************************************************************************)
(* Typing one value and searching another directly: the input event leaves  *)
(* a debounce timer, and before it fires a genre pill with another term is  *)
(* clicked or the form is submitted.  The passing of time is no event of    *)
(* the controller: event keeps the latest handler that ran.                 *)
(***************************************************************************)
TypedValues == {<<"a", "b">>}
DirectPillTerms == {<<"c", "d">>}

\* time passes while the debounce timer runs
Wait ==
  /\ NoRejectionDue
  /\ app.searchTimeout.active
  /\ app.searchTimeout.remaining > 0
  /\ app' = [app EXCEPT !.searchTimeout.remaining = Max(@ - TickUnit, 0)]
  /\ sinceKey' = IF sinceKey < 0 THEN sinceKey
                 ELSE Min(sinceKey + TickUnit, DebounceDelay)
  /\ UNCHANGED <<optimized, accepted, event>>

DirectNext ==
  \/ \E value \in TypedValues : Input(value)
  \/ Wait
  \/ TimerFire
  \/ Submit
  \/ \E genre \in DirectPillTerms : GenrePillClick(genre)
  \/ Settle

SpecDirect == Init /\ [][DirectNext]_vars

(***************************************************************************)
(* Searches that are cleared: the clear button or the Escape key            *)
(* (clearSearch), the clear-filters button or the C key (clearAllFilters;   *)
(* only app.js attaches a listener that calls it).                          *)
(***************************************************************************)
ClearSearch ==
  /\ Handled(clearSearch(begin(app)), "clearSearch", <<>>)
  /\ UNCHANGED sinceKey

ClearAllFilters ==
  /\ ~optimized
  /\ Handled(clearAllFilters(begin(app)), "clearAllFilters", <<>>)
  /\ UNCHANGED sinceKey

ClearNext ==
  \/ \E value \in TypedValues : Input(value)
  \/ Wait
  \/ TimerFire
  \/ \E genre \in PillTerms : GenrePillClick(genre)
  \/ CategoryClick(HBO)
  \/ Settle
  \/ ClearSearch
  \/ ClearAllFilters

SpecClear == Init /\ [][ClearNext]_vars

(***************************************************************************)
(* The filter and sort selects in a browser whose time zone is behind UTC   *)
(* (the Americas) or not.                                                   *)
(***************************************************************************)
SortInit ==
  /\ optimized \in BOOLEAN
  /\ \E behindUTC \in BOOLEAN : app = [InitialApp EXCEPT !.behindUTC = behindUTC]
  /\ sinceKey = -1
  /\ accepted = [term |-> <<>>, raw |-> <<>>]
  /\ event = Event("init", <<>>, 0, "", NoError)

SpecSort == SortInit /\ [][FilterNext]_vars

(***************************************************************************)
(* Leaving the page of the optimized build, whose analytics is the manager  *)
(* or, when the manager could not be constructed (its script missing, its   *)
(* write of the user id refused), the fallback object.                      *)
(***************************************************************************)
UnloadInit ==
  /\ optimized = TRUE
  /\ \E fallback \in BOOLEAN :
       app = [InitialApp EXCEPT !.analyticsFallback = fallback]
  /\ sinceKey = -1
  /\ accepted = [term |-> <<>>, raw |-> <<>>]
  /\ event = Event("init", <<>>, 0, "", NoError)

\* "beforeunload" of the window
BeforeUnload ==
  /\ ~app.isDestroyed
  /\ Handled(handleBeforeUnload(begin(app)), "beforeunload", <<>>)
  /\ UNCHANGED sinceKey

UnloadNext ==
  \/ ~app.isDestroyed /\ \E value \in TypedValues : Input(value)
  \/ Tick
  \/ TimerFire
  \/ ~app.isDestroyed /\ \E genre \in PillTerms : GenrePillClick(genre)
  \/ ~app.isDestroyed /\ CategoryClick(HBO)
  \/ Settle
  \/ BeforeUnload

SpecUnload == UnloadInit /\ [][UnloadNext]_vars

(***************************************************************************)
(* The suggestion list: searches that fill the history, typing that shows   *)
(* the entries that match, the arrow keys and Enter in the search box, and  *)
(* a click outside the box and the list, which hides the list.              *)
(***************************************************************************)
NavigationKeys == {"ArrowDown", "ArrowUp", "Enter"}

\* "keydown" of the search box; the event keeps the key
KeyDown(key) ==
  /\ NoRejectionDue
  /\ Run(keydown(begin(app), key))
  /\ event' = [op |-> "keydown", value |-> <<>>, id |-> 0, kind |-> "",
               error |-> NoError, key |-> key]
  /\ UNCHANGED <<optimized, sinceKey, accepted>>

\* a click outside the search box and the suggestion list
ClickOutside ==
  /\ Handled(hideSuggestions(begin(app)), "clickOutside", <<>>)
  /\ UNCHANGED sinceKey

SuggestNext ==
  \/ \E value \in TypedValues : Input(value)
  \/ Tick
  \/ TimerFire
  \/ \E genre \in PillTerms : GenrePillClick(genre)
  \/ \E key \in NavigationKeys : KeyDown(key)
  \/ ClickOutside
  \/ Settle

SpecSuggest == Init /\ [][SuggestNext]_vars

(***************************************************************************)
(* Properties.                                                             *)
(***************************************************************************)
\* the requests a step issued
NewRequests == {r \in app'.pending : r.id >= app.nextId}

\* the step ran the continuation of a request
Completed == event'.op \in {"respond", "fail", "cancel"}

ResultsUnchanged ==
  /\ app'.currentResults = app.currentResults
  /\ app'.filteredResults = app.filteredResults
  /\ app'.results = app.results

RaisedErrorToast(a) == \E i \in 1..Len(a.toasts) : a.toasts[i].type = "error"

\* the filter / sort projection of a raw result set under the current
\* FilterState
Projection(raw) ==
  filterAndSort(raw, app.genreFilter, app.statusFilter, app.channelFilter,
                app.isShowingFavoritesOnly, DOMAIN app.favorites, app.sortFilter,
                app.behindUTC)

\* C1: when request B is issued while request A is unresolved, the later
\* completion of A (response, failure or cancellation) leaves currentResults,
\* filteredResults and the rendered results as they are.
C1_SupersededResponseDiscarded ==
  [][(Completed /\ event'.id < app.nextId - 1) => ResultsUnchanged]_vars

\* C2: in every state at most one show-search request is outstanding and not
\* cancelled.
C2_SingleFlight ==
  Cardinality({r \in app.pending : r.signal # "aborted"}) <= 1

\* C3: text search and channel search share one in-flight slot: no state has
\* an uncancelled text request together with an uncancelled catalog or
\* fallback request.
C3_SharedSlot ==
  \A t, c \in app.pending :
    (t.kind = "text" /\ c.kind \in {"catalog", "fallback"})
      => (t.signal = "aborted" \/ c.signal = "aborted")

\* a value the debounce is meant to fetch as it is: long enough, not the
\* term of the search before it, and left unchanged by sanitizing
Searchable(term) ==
  /\ Len(term) >= MinTermLen
  /\ term # app.lastSearchTerm
  /\ sanitizeInput(optimized, term) = term

\* C4: the debounce timer comes due only when the debounce delay has passed
\* since the latest input event, and when it fires for a searchable value it
\* issues exactly one fetch, whose query is that value.
C4_BurstIssuesOneFetch ==
  [][/\ (app.searchTimeout.active /\ app.searchTimeout.remaining = 0)
          => sinceKey = DebounceDelay
     /\ (event'.op = "timer" /\ Searchable(event'.value))
          => \E r \in NewRequests :
               /\ NewRequests = {r}
               /\ r.kind = "text"
               /\ r.q = event'.value]_vars

\* C5: in the build whose text search reaches the network, the debounce
\* callback fetches a value with a non-empty sanitized form exactly when the
\* value differs from the term of the latest accepted search.
C5_FetchUnlessAccepted ==
  [][(/\ optimized
      /\ event'.op = "timer"
      /\ Len(event'.value) >= MinTermLen
      /\ sanitizeInput(optimized, event'.value) # <<>>)
       => (NewRequests # {} <=> event'.value # accepted.term)]_vars

\* C6: an input event with a value shorter than two characters leaves no
\* timer of an earlier input event pending, shows the category interface,
\* and produces neither the error panel nor an error toast.
C6_ShortInput ==
  [][(event'.op = "input" /\ Len(trim(event'.value)) < MinTermLen)
       => /\ app'.searchTimeout.active
               => app'.searchTimeout.term = event'.value
          /\ app'.interfaceVisible
          /\ app'.errorVisible => app.errorVisible
          /\ ~RaisedErrorToast(app')]_vars

\* C7: the cards on display are the projection, under the current
\* FilterState, of the raw result set of the latest accepted search, and
\* filteredResults holds no entry that currentResults lacks.
C7_DisplayIsProjection ==
  /\ app.results.kind = "cards" => app.results.ids = Projection(accepted.raw)
  /\ Range(app.filteredResults) \subseteq Range(app.currentResults)

\* C8: when a search fails with a timeout after an earlier search succeeded,
\* the timeout message is shown, the raw result set is still that of the
\* earlier search and its cards are still on display.
C8_TimeoutKeepsResults ==
  (/\ event.op = "fail"
   /\ event.kind \in {"text", "fallback"}
   /\ event.error = TimeoutError
   /\ accepted.raw # <<>>)
    => /\ app.errorVisible
       /\ app.errorMessage = MsgTimeout
       /\ app.currentResults = accepted.raw
       /\ app.results = Cards(Projection(accepted.raw))

\* C9: the completion of an aborted request is silent: it does not show the
\* error panel, raises no error toast and leaves the result set as it is.
C9_CancellationSilent ==
  [][event'.op = "cancel"
       => /\ app'.errorVisible => app.errorVisible
          /\ ~RaisedErrorToast(app')
          /\ ResultsUnchanged]_vars

\* C10: a term is in the search history exactly when its sanitized form is
\* non-empty: every entry sanitizes to a non-empty string, every searched
\* term with a non-empty sanitized form is an entry, and the term of every
\* text request in flight is an entry.
C10_HistoryOfAttempts ==
  /\ \A i \in 1..Len(app.searchHistory) :
       sanitizeInput(optimized, app.searchHistory[i]) # <<>>
  /\ sanitizeInput(optimized, app.lastSearchTerm) # <<>>
       => app.lastSearchTerm \in Range(app.searchHistory)
  /\ \A r \in app.pending :
       r.kind = "text" => r.term \in Range(app.searchHistory)

\* the step called performSearch with the value of the event
PerformSearchCalled ==
  \/ event'.op = "pill"
  \/ event'.op = "submit" /\ Len(event'.value) >= MinTermLen
  \/ /\ event'.op = "timer"
     /\ optimized => /\ Len(event'.value) >= MinTermLen
                     /\ event'.value # app.lastSearchTerm

\* C11: when the sanitized form of the term is empty, performSearch issues no
\* request and surfaces an error state: the error panel is shown and an error
\* toast is raised.
C11_EmptyTermNotFetched ==
  [][(PerformSearchCalled /\ sanitizeInput(optimized, event'.value) = <<>>)
       => /\ NewRequests = {}
          /\ app'.errorVisible
          /\ RaisedErrorToast(app')]_vars

\* the validating build searched "<>" from the debounce timer
C11_Witness ==
  /\ optimized
  /\ event.op = "timer"
  /\ event.value = <<"<", ">">>
  /\ app.lastSearchTerm = <<"<", ">">>
  /\ app.errorVisible
  /\ app.pending = {}

\* the position of an entry in a history
IndexOf(history, term) == CHOOSE i \in 1..Len(history) : history[i] = term

\* the step recorded the term of the event (the optimized build records no
\* term shorter than two characters)
RecordedTerm ==
  /\ event'.op = "history"
  /\ optimized => Len(event'.value) >= MinTermLen

C13_HistoryUniqueAfterSanitize ==
  \A i, j \in 1..Len(app.searchHistory) :
    sanitizeInput(optimized, app.searchHistory[i])
      = sanitizeInput(optimized, app.searchHistory[j]) => i = j

\* C14: sanitizeInput is idempotent: sanitizing what it returned returns the
\* same string.
C14_SanitizeIdempotent ==
  event.op = "sanitizeInput"
    => sanitizeInput(optimized, event.result) = event.result

\* a string that reached past the limit was cut and then trimmed
C14_Witness ==
  /\ event.op = "sanitizeInput"
  /\ Len(event.value) > MaxTermLen
  /\ Len(event.result) < MaxTermLen
  /\ event.result # <<>>

\* C15: what sanitizeInput returns holds none of the characters < > " ' &,
\* no two whitespace characters in a row, at most 100 characters, and no
\* whitespace at either end.
C15_SanitizeOutput ==
  event.op = "sanitizeInput"
    => /\ Range(event.result) \cap Dangerous = {}
       /\ \A i \in 1..(Len(event.result) - 1) :
            ~(event.result[i] \in Whitespace /\ event.result[i + 1] \in Whitespace)
       /\ Len(event.result) <= MaxTermLen
       /\ trim(event.result) = event.result

\* the result list a response offers: the list itself for a text search or
\* a fallback search, the shows of the channel for a catalog
Offered ==
  IF event'.kind = "catalog"
  THEN SelectSeq(event'.data, LAMBDA id : matchesChannel(id, event'.value))
  ELSE event'.data

\* C16: once a response that offers results was processed, currentResults
\* holds at most 50 entries, and they are the first 50 entries offered, in
\* their order.
C16_RawSetClamped ==
  [][(event'.op = "answer" /\ Offered # <<>>)
       => /\ Len(app'.currentResults) <= MaxResults
          /\ app'.currentResults = slice(Offered, MaxResults)]_vars

\* C17: the fallback search that follows a catalog without a show of the
\* channel goes through the pipeline of a typed search: the query sent is
\* the sanitized label, the label is in the search history exactly once,
\* and every other request in flight is cancelled.
C17_FallbackThroughPipeline ==
  [][\A r \in NewRequests :
       (event'.op = "respond" /\ event'.kind = "catalog" /\ r.kind = "fallback")
         => /\ r.q = sanitizeInput(optimized, r.term)
            /\ Cardinality({i \in DOMAIN app'.searchHistory :
                              app'.searchHistory[i] = r.term}) = 1
            /\ \A other \in app'.pending \ {r} : other.signal = "aborted"]_vars

\* the shows of a catalog that have a network or web-channel name which,
\* ignoring case, contains the label or is contained in it
ShowsOfChannel(catalog, label) ==
  SelectSeq(catalog, LAMBDA id :
    /\ ShowOf[id].network # <<>>
    /\ \/ includes(toLowerCase(ShowOf[id].network), toLowerCase(label))
       \/ includes(toLowerCase(label), toLowerCase(ShowOf[id].network)))

\* C18: once the catalog has arrived, the result set of the channel search
\* holds exactly the shows of the catalog whose network or web-channel name
\* matches the label; a show without such a name is in it for no label.
C18_ChannelResult ==
  [][(event'.op = "answer" /\ event'.kind = "catalog")
       => app'.currentResults = ShowsOfChannel(event'.data, event'.value)]_vars

C21_ToggleTwiceRestores ==
  [][(/\ event.op = "favorite"
      /\ event'.op = "favorite"
      /\ event'.showId = event.showId
      /\ event.showId \in Range(app.currentResults))
       => /\ app'.favorites = event.before
          /\ app'.storedFavorites = event.storedBefore]_vars

\* C23: starting from an empty favorites map, every key of the map is the
\* id of a show that some response fetched earlier in the run carried.
C23_FavoritesWereFetched == DOMAIN app.favorites \subseteq FetchedSoFar

\* two favorites, one of them a show of an earlier result set that the
\* current result set does not hold
C23_Witness ==
  /\ Cardinality(DOMAIN app.favorites) = 2
  /\ \E id \in DOMAIN app.favorites : id \notin Range(app.currentResults)
  /\ app.currentResults # <<>>
  /\ FetchedSoFar # DOMAIN app.favorites

\* the step called toggleFavorite for a show of the current results
ToggledFavorite ==
  /\ event'.op = "favorite"
  /\ event'.showId \in Range(app.currentResults)

\* C22: the value that a toggleFavorite call writes to storage is the
\* favorites map as the call leaves it, so that the stored map equals the
\* map in memory once storage has taken the write; and a call leaves every
\* entry other than that of its show in the map, unchanged, however many
\* there are.
C22_StoredAfterEveryToggle ==
  [][ToggledFavorite
       => /\ app.storageAvailable => app'.storedFavorites = app'.favorites
          /\ \A id \in DOMAIN app.favorites \ {event'.showId} :
               /\ id \in DOMAIN app'.favorites
               /\ app'.favorites[id] = app.favorites[id]]_vars

\* a third favorite was added to two stored ones
C22_Witness ==
  /\ event.op = "favorite"
  /\ Cardinality(DOMAIN event.storedBefore) = 2
  /\ Cardinality(DOMAIN app.favorites) = 3
  /\ app.storedFavorites = app.favorites

\* the toast that warns of a failed write
RaisedStorageWarning(a) ==
  \E i \in 1..Len(a.toasts) : a.toasts[i].message = MsgStorage

\* C26: when storage does not take the write of toggleFavorite or of
\* addToSearchHistory, the change is kept in memory and a warning is raised;
\* the search that called addToSearchHistory still issues its request.  (The
\* search is that of the build whose performSearch reaches
\* addToSearchHistory.)
C26_WriteFailureTolerated ==
  [][/\ (ToggledFavorite /\ ~app.storageAvailable)
          => /\ DOMAIN app'.favorites # DOMAIN app.favorites
             /\ RaisedStorageWarning(app')
     /\ (optimized /\ event'.op = "pill" /\ ~app.storageAvailable)
          => /\ app'.searchHistory # <<>>
             /\ app'.searchHistory[1] = event'.value
             /\ RaisedStorageWarning(app')
             /\ NewRequests # {}]_vars

\* the error is that of a cancelled request
IsCancellation(error) == error.name \in {"AbortError", "CanceledError"}

\* the messages raised as toasts of type error
ErrorToasts(a) ==
  SelectSeq(a.toasts, LAMBDA toast : toast.type = "error")

\* C24: handleError shows one message for a failure that is no
\* cancellation, in the error panel and as one toast: the timeout message
\* for a timeout, the too-many-requests message for status 429, "Server
\* error. Please try again later." for every status from 500 to 599, and
\* for any other failure a message that is none of these three.
C24_MessageByCategory ==
  (event.op = "handleError" /\ ~IsCancellation(event.error))
    => /\ app.errorVisible
       /\ Len(ErrorToasts(app)) = 1
       /\ ErrorToasts(app)[1].message = app.errorMessage
       /\ IF event.error.code = "ECONNABORTED" \/ event.error.timeout
          THEN app.errorMessage = MsgTimeout
          ELSE IF event.error.status = 429
          THEN app.errorMessage = MsgTooMany
          ELSE IF event.error.status \in 500..599
          THEN app.errorMessage = MsgServer
          ELSE app.errorMessage \notin {MsgTimeout, MsgTooMany, MsgServer}

\* the error messages a step brought before the user: those of its error
\* toasts and that of the error panel when the step showed it (a message
\* shown both in the panel and as a toast counts once)
SurfacedMessages ==
  {ErrorToasts(app')[i].message : i \in 1..Len(ErrorToasts(app'))}
    \cup (IF app'.errorVisible
              /\ (~app.errorVisible \/ app'.errorMessage # app.errorMessage)
          THEN {app'.errorMessage} ELSE {})

\* C25: a transport failure of a search (of a text, catalog or fallback
\* request) and a validation failure of a submitted term are surfaced
\* exactly once: the step that handles the failure brings one error message
\* before the user, not none and not two, and raises at most one error
\* toast.
C25_FailureSurfacedOnce ==
  [][(\/ event'.op = "fail"
      \/ event'.op = "submit" /\ Len(event'.value) < MinTermLen)
       => /\ Cardinality(SurfacedMessages) = 1
          /\ Len(ErrorToasts(app')) <= 1]_vars

\* what the constructor found under a key was missing or unreadable
Unreadable(item) == item.kind # "value" \/ ~event.storage.enabled

\* C27: at construction a missing or unreadable stored search history or
\* favorites map yields the empty list or the empty map, and the
\* constructor returns with the listeners attached, so that searches can
\* be made.
C27_ReadFailureTolerated ==
  event.op = "init"
    => /\ app.initialized
       /\ Unreadable(event.storage.history) => app.searchHistory = <<>>
       /\ Unreadable(event.storage.favorites) => app.favorites = NoFavorites

C28_NoOpAfterCleanup ==
  [][/\ app'.isDestroyed => ~app'.searchTimeout.active
     /\ app.isDestroyed
          => /\ NewRequests = {}
             /\ app'.currentResults = app.currentResults
             /\ app'.filteredResults = app.filteredResults
             /\ app'.searchHistory = app.searchHistory
             /\ app'.errorVisible = app.errorVisible
             /\ app'.errorMessage = app.errorMessage
             /\ app'.loadingVisible = app.loadingVisible]_vars

\* window.AppConfig is not there
ConfigAbsent == app.appConfig = "absent"

\* no configuration check is scheduled and analytics is disabled
PollingEnded == ~app.analytics.retry.active /\ ~app.analytics.isEnabled

\* C30: when window.AppConfig never becomes available, the manager stops
\* scheduling configuration checks after some number of them and stays
\* disabled.
C30_PollingTerminates == ([]ConfigAbsent) => <>[]PollingEnded

\* C31: the cancellation of a catalog request (its signal aborted by a newer
\* search) issues no request: searchChannelFallback is not called for it, so
\* that no fallback of the cancelled channel search can be applied later.
C31_CancelledCatalogNoFallback ==
  [][(event'.op = "cancel" /\ event'.kind = "catalog") => NewRequests = {}]_vars

\* C32: when the debounce timer fires and the handler that ran last, while
\* the timer was pending, was a direct search (genre pill or form submit),
\* the callback issues no request: neither for the older debounced value nor
\* a second one for the value just searched.
C32_PendingTimerIssuesNoFetch ==
  [][(event'.op = "timer" /\ event.op \in {"pill", "submit"})
       => NewRequests = {}]_vars

\* C33: when the handler that ran last was clearSearch or clearAllFilters,
\* what runs next without the user asking for it (the callback of a debounce
\* timer that was pending, the completion of a request that was in flight)
\* leaves the raw and the derived result set empty and renders no cards.
C33_ClearedStaysEmpty ==
  [][(/\ event.op \in {"clearSearch", "clearAllFilters"}
      /\ event'.op \in {"timer", "respond", "fail", "cancel"})
       => /\ app'.currentResults = <<>>
          /\ app'.filteredResults = <<>>
          /\ app'.results.kind # "cards"]_vars

\* C34: in every state in which a request is outstanding and not cancelled,
\* the loading indicator is visible.
C34_LoadingWhileOutstanding ==
  (\E r \in app.pending : r.signal # "aborted") => app.loadingVisible

\* the year of a premiere date, 0 for a show without one
PremiereYear(id) ==
  IF ShowOf[id].premiered = <<>> THEN 0 ELSE ShowOf[id].premiered[1]

\* x stands before y under the sort key: its key comes first, or the keys
\* are equal (always, under "relevance") and x is before y in the raw set
StandsBefore(sortBy, raw, x, y) ==
  LET apart == CASE sortBy = "rating" -> ShowOf[y].rating - ShowOf[x].rating
                 [] sortBy = "name" ->
                      localeCompare(ShowOf[x].name, ShowOf[y].name)
                 [] sortBy = "year" -> PremiereYear(y) - PremiereYear(x)
                 [] OTHER -> 0
  IN apart < 0 \/ (apart = 0 /\ IndexOf(raw, x) < IndexOf(raw, y))

\* C35: after applyFilters the derived result set holds exactly the raw
\* entries that pass every active predicate (genre a member of the show's
\* genres, status equal, network name containing the channel ignoring case,
\* id a key of the favorites when favorites-only is on), each once, ordered
\* by the sort key (rating descending, name ascending, premiere year
\* descending with a missing date as year 0), ties and "relevance" in raw
\* order.
C35_FilteredIsSortedSelection ==
  [][event'.op = "filter"
       => LET raw == app'.currentResults
              out == app'.filteredResults
              kept == SelectSeq(raw, LAMBDA id :
                        /\ app'.genreFilter # ""
                             => app'.genreFilter \in ShowOf[id].genres
                        /\ app'.statusFilter # ""
                             => ShowOf[id].status = app'.statusFilter
                        /\ app'.channelFilter # <<>>
                             => includes(toLowerCase(ShowOf[id].network),
                                         toLowerCase(app'.channelFilter))
                        /\ app'.isShowingFavoritesOnly
                             => id \in DOMAIN app'.favorites)
          IN /\ Len(out) = Len(kept)
             /\ Range(out) = Range(kept)
             /\ \A i, j \in 1..Len(out) :
                  i < j => StandsBefore(app'.sortFilter, raw, out[i], out[j])]_vars

\* C36: whenever the favorites-only flag is on, every show of the derived
\* result set and every card on display is a key of the favorites map.
C36_FavoritesOnlyShowsFavorites ==
  app.isShowingFavoritesOnly
    => /\ Range(app.filteredResults) \subseteq DOMAIN app.favorites
       /\ ShownCards \subseteq DOMAIN app.favorites

\* C37: once the beforeunload handler has run, isDestroyed is true, no
\* debounce timer is pending and no request holds a live signal, whether
\* this.analytics is the manager or the fallback object.
C37_UnloadRunsCleanup ==
  [][event'.op = "beforeunload"
       => /\ app'.isDestroyed
          /\ ~app'.searchTimeout.active
          /\ \A r \in app'.pending : r.signal # "live"]_vars

\* C38: while the suggestion list is hidden, an arrow key in the search box
\* leaves suggestionIndex at -1 and Enter does what submitting the form with
\* the typed value does; a suggestion is selected and searched only while
\* the list is visible.
C38_KeysWhileSuggestionsHidden ==
  [][(event'.op = "keydown" /\ app.suggestionsHidden)
       => /\ event'.key \in {"ArrowDown", "ArrowUp"}
               => app'.suggestionIndex = -1
          /\ event'.key = "Enter" => app' = handleSearch(begin(app))]_vars

====
